---- MODULE Spec2Model ----
(***************************************************************************)
(* Model of clock.py: the themed fullscreen image clock.                   *)
(*                                                                         *)
(* The state is the module-level state of the script (the two readout      *)
(* caches, the drift state, the touch list, the running flag), the locals  *)
(* of the frame in progress, the frame last presented, and the position of *)
(* the main loop.  Time is the wall clock datetime.now(tz), counted in     *)
(* whole minutes since local midnight of the start day.  It advances only  *)
(* where the script blocks: inside urlopen (up to its timeout) and in      *)
(* clock.tick(FPS) at the end of a frame; most frames see no change of the *)
(* minute.                                                                 *)
(***************************************************************************)
EXTENDS Integers, Sequences, FiniteSets, TLC

VARIABLES
    clock,               \* datetime.now(tz), in minutes
    TEMP_ENDPOINT,       \* config: temp_endpoint (None when absent)
    WEATHER_ENDPOINT,    \* config: weather_endpoint (None when null)
    WEATHER_RAW,         \* the condition names with an image in the theme
    LAST_TEMP_FETCH,
    LAST_TEMP_VALUE,
    LAST_WEATHER_FETCH,
    LAST_WEATHER_ICON,
    origin,
    next_shift,
    icon_offset,
    temp_offset,
    weather_offset,
    touches,
    running,
    pc,                  \* position of the main loop
    frame,               \* locals of the frame in progress
    screen,              \* the frame last presented by display.flip()
    last_call,           \* history: the most recent readout call
    last_attempt,        \* history: instant of each readout's last urlopen
    arg,                 \* the input of a function studied on its own
    result               \* and what the function made of it

config == <<TEMP_ENDPOINT, WEATHER_ENDPOINT, WEATHER_RAW>>
temp_cache == <<LAST_TEMP_FETCH, LAST_TEMP_VALUE>>
weather_cache == <<LAST_WEATHER_FETCH, LAST_WEATHER_ICON>>
drift == <<origin, next_shift, icon_offset, temp_offset, weather_offset>>
history == <<last_call, last_attempt>>
pure == <<arg, result>>
vars == <<clock, config, temp_cache, weather_cache, drift, touches, running,
          pc, frame, screen, history, pure>>

(***************************************************************************)
(* Bounds of the model and inputs of the environment.                      *)
(***************************************************************************)
MaxTime == 7             \* minutes of wall clock explored after startup
MaxTouches == 2          \* cap on the touch list
StartMinute == 1078      \* the script starts at 17:58
SunriseMinute == 375     \* astral: sunrise of the day, 06:15
SunsetMinute == 1081     \* astral: sunset of the day, 18:01

None == "None"

(***************************************************************************)
(* Program constants.                                                      *)
(***************************************************************************)
SCREEN_W == 1920
SCREEN_H == 1080
PADDING == 40
DRIFT_PIXELS == 6
DRIFT_PERIOD == 5                  \* timedelta(minutes=5)
TOUCH_DURATION == 1                \* timedelta(milliseconds=300), rounded up to the clock's unit
DEFAULT_TEMP_VALUE == 72           \* 72.0
TEMP_PADDING_TOP == 40             \* DEFAULT_TEMP_PADDING_TOP
TEMP_NETWORK_PERIOD == 2           \* DEFAULT_TEMP_NETWORK_PERIOD, minutes
WEATHER_NETWORK_PERIOD == 3        \* config weather_network_period = 180 s
TIME_ADJUST == 0                   \* DEFAULT_TIME_ADJUST
DEFAULT_WEATHER_ICON == "clear_day"
NARROW == {"colon", "am", "pm"}

\* the eight calls of random.randint(-DRIFT_PIXELS, DRIFT_PIXELS) of one shift,
\* in the order of the calls: the outcomes explored
RandomDraws ==
    { <<-DRIFT_PIXELS, -DRIFT_PIXELS, -DRIFT_PIXELS, -DRIFT_PIXELS,
        -DRIFT_PIXELS, -DRIFT_PIXELS, -DRIFT_PIXELS, -DRIFT_PIXELS>>,
      <<DRIFT_PIXELS, DRIFT_PIXELS, DRIFT_PIXELS, DRIFT_PIXELS,
        DRIFT_PIXELS, DRIFT_PIXELS, DRIFT_PIXELS, DRIFT_PIXELS>>,
      <<-DRIFT_PIXELS, DRIFT_PIXELS, 0, -1, 3, -3, 1, 0>> }

Min(a, b) == IF a <= b THEN a ELSE b
Max(a, b) == IF a >= b THEN a ELSE b

(***************************************************************************)
(* JSON payloads and the Python conversions applied to them.               *)
(* A JSON value is absent (the key is not in the object), null, a number   *)
(* or a string.  A parsed document is an object with the two keys the      *)
(* script reads, or something that is not an object (isdict = FALSE).      *)
(***************************************************************************)
Absent == [t |-> "absent", n |-> 0, s |-> ""]
Null == [t |-> "null", n |-> 0, s |-> ""]
Num(n) == [t |-> "num", n |-> n, s |-> ""]
Str(s) == [t |-> "str", n |-> 0, s |-> s]

Dict(T, c) == [isdict |-> TRUE, Temperature |-> T, condition |-> c]
NoData == [isdict |-> FALSE, Temperature |-> Absent, condition |-> Absent]

\* what the network gives to urlopen(url, timeout=15) and json.load(resp)
NetError(k) == [status |-> k, json |-> FALSE, data |-> NoData]
BadJson == [status |-> "ok", json |-> FALSE, data |-> NoData]
Json(d) == [status |-> "ok", json |-> TRUE, data |-> d]

TempResponses ==
    { NetError("URLError"), NetError("timeout"), BadJson,
      Json(Dict(Absent, Absent)), Json(Dict(Str("n/a"), Absent)),
      Json(Dict(Num(65), Absent)), Json(Dict(Num(80), Absent)) }

WeatherResponses ==
    { NetError("URLError"), NetError("timeout"), BadJson,
      Json(Dict(Absent, Absent)), Json(Dict(Absent, Str("hail"))),
      Json(Dict(Absent, Str("rain"))), Json(Dict(Absent, Str("clear_day"))) }

\* themes: the sets of weather/<condition>.png files
WeatherAssetSets == { {"clear_day", "rain"}, {"rain"} }

\* a result of an expression that may raise: exc is the exception or "none"
Ok(v) == [exc |-> "none", v |-> v]
Raise(e) == [exc |-> e, v |-> Absent]

\* with urlopen(url, timeout=15) as resp: data = json.load(resp)
urlopen_json(url, net) ==
    IF url = None THEN Raise("AttributeError")
    ELSE IF net.status # "ok" THEN Raise(net.status)
    ELSE IF ~net.json THEN Raise("JSONDecodeError")
    ELSE Ok(net.data)

\* data.get(key, default)
dict_get(data, key, default) ==
    IF ~data.isdict THEN Raise("AttributeError")
    ELSE IF data[key].t = "absent" THEN Ok(default)
    ELSE Ok(data[key])

\* float(x)
py_float(x) ==
    IF x.t = "num" THEN Ok(x.n)
    ELSE IF x.t = "str" THEN Raise("ValueError")
    ELSE Raise("TypeError")

\* str(x)
py_str(x) ==
    IF x.t = "str" THEN x.s
    ELSE IF x.t = "num" THEN ToString(x.n)
    ELSE "None"

(***************************************************************************)
(* get_temperature() and get_weather_icon(theme_key).  Each is the result  *)
(* of one call made at the current clock with the network answering net:   *)
(* the new cache (value, fetch), the value returned (ret), and what the     *)
(* call did (fetched: it called urlopen; logged: it called log_exception;  *)
(* raised: an exception left the function).                                *)
(***************************************************************************)
Outcome(value, fetch, ret, fetched, logged) ==
    [value |-> value, fetch |-> fetch, ret |-> ret,
     fetched |-> fetched, logged |-> logged, raised |-> FALSE]

\* the body of the try: urlopen, json.load, data.get, float
TempTry(net) ==
    LET data == urlopen_json(TEMP_ENDPOINT, net)
        field == IF data.exc = "none"
                 THEN dict_get(data.v, "Temperature", Num(DEFAULT_TEMP_VALUE))
                 ELSE data
    IN  IF field.exc = "none" THEN py_float(field.v) ELSE field

\* if now - LAST_TEMP_FETCH >= TEMP_NETWORK_PERIOD
temp_due(now) == now - LAST_TEMP_FETCH >= TEMP_NETWORK_PERIOD

\* mutant: the success path forgets LAST_TEMP_FETCH = now
temp_on_success_stale(now, v) == Outcome(v, LAST_TEMP_FETCH, v, TRUE, FALSE)

\* LAST_TEMP_VALUE = float(...); LAST_TEMP_FETCH = now
temp_on_success(now, v) == Outcome(v, now, v, TRUE, FALSE)

\* mutant: the failure path falls back to the default instead of the cache
temp_on_error_resets(now) == Outcome(DEFAULT_TEMP_VALUE, now, DEFAULT_TEMP_VALUE, TRUE, TRUE)

\* except Exception as e: log_exception(e, TEMP_ENDPOINT); LAST_TEMP_FETCH = now
temp_on_error(now) == Outcome(LAST_TEMP_VALUE, now, LAST_TEMP_VALUE, TRUE, TRUE)

get_temperature(net) ==
    LET now == clock IN
    IF temp_due(now)
    THEN IF TEMP_ENDPOINT = None
         THEN Outcome(DEFAULT_TEMP_VALUE, now, DEFAULT_TEMP_VALUE, FALSE, FALSE)
         ELSE LET got == TempTry(net) IN
              IF got.exc = "none" THEN temp_on_success(now, got.v) ELSE temp_on_error(now)
    ELSE Outcome(LAST_TEMP_VALUE, LAST_TEMP_FETCH, LAST_TEMP_VALUE, FALSE, FALSE)

\* the value None where a surface is expected
NoSurface == [theme |-> None, name |-> None]

\* WEATHER_ICONS[theme_key].get(name): the prepared surface, or None
weather_surface(theme_key, name) ==
    IF name \in WEATHER_RAW THEN [theme |-> theme_key, name |-> name] ELSE NoSurface

\* the body of the try up to icon_name: urlopen, json.load, data.get, str
WeatherTry(net) ==
    LET data == urlopen_json(WEATHER_ENDPOINT, net)
        field == IF data.exc = "none"
                 THEN dict_get(data.v, "condition", Str(LAST_WEATHER_ICON))
                 ELSE data
    IN  IF field.exc = "none" THEN Ok(py_str(field.v)) ELSE field

\* mutant: the refresh comes one minute early
weather_due_early(now) == now - LAST_WEATHER_FETCH >= WEATHER_NETWORK_PERIOD - 1

\* if now - LAST_WEATHER_FETCH >= WEATHER_NETWORK_PERIOD
weather_due(now) == now - LAST_WEATHER_FETCH >= WEATHER_NETWORK_PERIOD

\* mutant: the fetched name is selected without looking at the asset set
weather_select_any(icon_name) == icon_name

\* if icon_name in WEATHER_RAW: LAST_WEATHER_ICON = icon_name
weather_select(icon_name) ==
    IF icon_name \in WEATHER_RAW THEN icon_name ELSE LAST_WEATHER_ICON

\* ...; LAST_WEATHER_FETCH = now
weather_on_success(theme_key, now, icon_name) ==
    Outcome(weather_select(icon_name), now,
            weather_surface(theme_key, weather_select(icon_name)), TRUE, FALSE)

\* mutant: the failure path leaves LAST_WEATHER_FETCH alone, so every frame retries
weather_on_error_retries(theme_key, now) ==
    Outcome(LAST_WEATHER_ICON, LAST_WEATHER_FETCH,
            weather_surface(theme_key, LAST_WEATHER_ICON), TRUE, TRUE)

\* except Exception as e: log_exception(e, WEATHER_ENDPOINT); LAST_WEATHER_FETCH = now
weather_on_error(theme_key, now) ==
    Outcome(LAST_WEATHER_ICON, now, weather_surface(theme_key, LAST_WEATHER_ICON), TRUE, TRUE)

get_weather_icon(theme_key, net) ==
    LET now == clock IN
    IF weather_due(now)
    THEN LET got == WeatherTry(net) IN
         IF got.exc = "none"
         THEN weather_on_success(theme_key, now, got.v)
         ELSE weather_on_error(theme_key, now)
    ELSE Outcome(LAST_WEATHER_ICON, LAST_WEATHER_FETCH,
                 weather_surface(theme_key, LAST_WEATHER_ICON), FALSE, FALSE)

(***************************************************************************)
(* Layout: the sizes computed once at startup.                             *)
(***************************************************************************)
ICON_W == 256            \* icon.get_width() of the prepared corner icons
MAX_ICON_H == 200
FONT_H == 90             \* TEMP_FONT.get_height()
CHAR_W == 36             \* width of one rendered character of TEMP_FONT
ow == 300                \* sample.get_width()
oh == 500                \* sample.get_height()
TOTAL_UNITS == 5

\* round(n / d) for d > 0: Python rounds halves to the even neighbour
PyRound(n, d) ==
    LET q == n \div d
        r == n % d
    IN  IF 2 * r < d THEN q
        ELSE IF 2 * r > d THEN q + 1
        ELSE IF q % 2 = 0 THEN q ELSE q + 1

TOP_RESERVED == Max(MAX_ICON_H + 2 * PADDING, TEMP_PADDING_TOP + FONT_H + PADDING)

\* The layout of a sample glyph of w x h pixels under a reserved top of
\* `top` pixels.  scale = min(a, b), a = (SCREEN_W-2*PADDING)/(TOTAL_UNITS*w),
\* b = (SCREEN_H-top-2*PADDING)/h, kept as the fraction scale_num / scale_den
scale_by_width(w, h, top) ==
    (SCREEN_W - 2 * PADDING) * h <= (SCREEN_H - top - 2 * PADDING) * TOTAL_UNITS * w
scale_num(w, h, top) ==
    IF scale_by_width(w, h, top) THEN SCREEN_W - 2 * PADDING ELSE SCREEN_H - top - 2 * PADDING
scale_den(w, h, top) ==
    IF scale_by_width(w, h, top) THEN TOTAL_UNITS * w ELSE h

w_full(w, h, top) == Max(1, PyRound(w * scale_num(w, h, top), scale_den(w, h, top)))
w_half(full) == Max(1, PyRound(full, 2))
h_all(w, h, top) == Max(1, PyRound(h * scale_num(w, h, top), scale_den(w, h, top)))
strip_w(full, half) == 4 * full + 2 * half

\* cy = (SCREEN_H - H_ALL) // 2: centred on the whole screen
base_origin_mid_screen(strip, height, top) ==
    LET cx == (SCREEN_W - strip) \div 2
        cy == (SCREEN_H - height) \div 2
    IN  <<cx, cy>>

\* base_origin() for a strip of the given width and height
base_origin_at(strip, height, top) ==
    LET cx == (SCREEN_W - strip) \div 2
        cy == top + (SCREEN_H - top - height) \div 2
    IN  <<cx, cy>>

\* the layout of the running program
ScaleByWidth == scale_by_width(ow, oh, TOP_RESERVED)
ScaleNum == scale_num(ow, oh, TOP_RESERVED)
ScaleDen == scale_den(ow, oh, TOP_RESERVED)
W_FULL == w_full(ow, oh, TOP_RESERVED)
W_HALF == w_half(W_FULL)
H_ALL == h_all(ow, oh, TOP_RESERVED)
STRIP_W == strip_w(W_FULL, W_HALF)
base_origin == base_origin_at(STRIP_W, H_ALL, TOP_RESERVED)

(***************************************************************************)
(* The clock face.                                                         *)
(***************************************************************************)
Lower(c) == IF c = "A" THEN "a" ELSE IF c = "P" THEN "p" ELSE IF c = "M" THEN "m" ELSE c

\* dt.strftime("%H:%M%p"): the hour on the 24-hour clock
strftime_HMp(dt) ==
    LET h == (dt \div 60) % 24
        m == dt % 60
    IN  <<ToString(h \div 10), ToString(h % 10), ":",
          ToString(m \div 10), ToString(m % 10),
          IF h < 12 THEN "A" ELSE "P", "M">>

\* dt.strftime("%I:%M%p"), as its seven characters
strftime_IMp(dt) ==
    LET h == (dt \div 60) % 24
        m == dt % 60
        I == IF h % 12 = 0 THEN 12 ELSE h % 12
    IN  <<ToString(I \div 10), ToString(I % 10), ":",
          ToString(m \div 10), ToString(m % 10),
          IF h < 12 THEN "A" ELSE "P", "M">>

glyph_seq(dt) ==
    LET s == [i \in 1..7 |-> Lower(strftime_IMp(dt)[i])]
    IN  <<s[1], s[2], "colon", s[4], s[5], s[6] \o s[7]>>

\* sun(loc.observer, date=now.date(), tzinfo=tz)
sun_times(now) == [sunrise |-> SunriseMinute, sunset |-> SunsetMinute]

\* sunrise <= now <= sunset: the instant of sunset still counted as day
is_day_through_sunset(now) ==
    sun_times(now).sunrise <= now /\ now <= sun_times(now).sunset

\* is_day = sun_times["sunrise"] <= now < sun_times["sunset"]
is_day(now) ==
    sun_times(now).sunrise <= now /\ now < sun_times(now).sunset

\* theme_key = "day" if is_day else "night"
theme_of(day) == IF day THEN "day" ELSE "night"

\* icon = SUN_ICONS[...] if is_day else MOON_ICONS[...]
corner_icon(day) == IF day THEN "sun" ELSE "moon"

\* temp_surf.get_width() for f"{temp_val:.0f}\N{DEGREE SIGN}F"
temp_surf_width(temp_val) ==
    CHAR_W * ((IF temp_val < 10 THEN 1 ELSE IF temp_val < 100 THEN 2 ELSE 3) + 2)

(***************************************************************************)
(* Input events of one frame: pygame.event.get().                          *)
(***************************************************************************)
Quit == [type |-> "QUIT", key |-> None, pos |-> <<0, 0>>]
KeyDown(k) == [type |-> "KEYDOWN", key |-> k, pos |-> <<0, 0>>]
MouseDown(p) == [type |-> "MOUSEBUTTONDOWN", key |-> None, pos |-> p]

\* two places of the screen that are touched
Here == <<100, 200>>
There == <<900, 540>>

\* with no endpoint configured the frames see two-finger input as well
EventBatches ==
    { <<>>, <<Quit>>, <<KeyDown("K_ESCAPE")>>, <<KeyDown("K_q")>>, <<KeyDown("K_a")>>,
      <<MouseDown(Here)>>, <<MouseDown(Here), Quit>> }
    \cup (IF TEMP_ENDPOINT = None /\ WEATHER_ENDPOINT = None
          THEN { <<MouseDown(There)>>, <<MouseDown(There), MouseDown(Here)>> }
          ELSE {})

IsQuit(e) ==
    \/ e.type = "QUIT"
    \/ e.type = "KEYDOWN" /\ e.key \in {"K_ESCAPE", "K_q"}

\* the touches appended by the events of one frame, in order
RECURSIVE NewTouches(_, _)
NewTouches(events, now) ==
    IF events = <<>> THEN <<>>
    ELSE LET e == Head(events)
             rest == NewTouches(Tail(events), now)
         IN  IF ~IsQuit(e) /\ e.type = "MOUSEBUTTONDOWN"
             THEN <<[pos |-> e.pos, expiry |-> now + TOUCH_DURATION]>> \o rest
             ELSE rest

\* [t for t in touches if t[1] >= now]: a marker outlives its expiry instant
Purge_keeps_due(ts, now) == SelectSeq(ts, LAMBDA t : t.expiry >= now)

\* touches[:] = [t for t in touches if t[1] > now]
Purge(ts, now) == SelectSeq(ts, LAMBDA t : t.expiry > now)

(***************************************************************************)
(* The state after the module-level statements have run.                   *)
(***************************************************************************)
NoResponse == [status |-> "none", json |-> FALSE, data |-> NoData]
NoAttempt == [any |-> FALSE, at |-> 0]

BlankFrame ==
    [now |-> 0, is_day |-> FALSE, theme_key |-> None,
     temp_val |-> 0, temp_x |-> 0, temp_y |-> 0,
     icon |-> None, icon_x |-> 0, icon_y |-> 0,
     weather |-> NoSurface, weather_x |-> 0, weather_y |-> 0,
     shifted |-> FALSE, quit |-> FALSE, downs |-> <<>>]

BlankScreen ==
    [presented |-> FALSE, at |-> 0, shifted |-> FALSE, quit |-> FALSE, theme_key |-> None,
     icon |-> None, icon_pos |-> <<0, 0>>,
     weather |-> NoSurface, weather_pos |-> <<0, 0>>,
     temp_val |-> 0, temp_pos |-> <<0, 0>>,
     glyphs |-> <<>>, strip_pos |-> <<0, 0>>, touches |-> <<>>]

NoCall ==
    [fn |-> "none", now |-> 0, net |-> NoResponse, since |-> NoAttempt,
     before |-> [value |-> None, fetch |-> 0],
     other |-> [value |-> None, fetch |-> 0],
     ret |-> None,
     fetched |-> FALSE, logged |-> FALSE, raised |-> FALSE]

\* no function is studied on its own
NoArg == [fn |-> "none"]
NotRun == [done |-> FALSE]

\* the module-level state, whatever the configuration and the theme
StartupAt(started) ==
    /\ clock = started
    /\ LAST_TEMP_FETCH = started - TEMP_NETWORK_PERIOD
    /\ LAST_TEMP_VALUE = DEFAULT_TEMP_VALUE
    /\ LAST_WEATHER_FETCH = started - WEATHER_NETWORK_PERIOD
    /\ LAST_WEATHER_ICON = DEFAULT_WEATHER_ICON
    /\ origin = base_origin
    /\ next_shift = started + DRIFT_PERIOD
    /\ icon_offset = <<0, 0>>
    /\ temp_offset = <<0, 0>>
    /\ weather_offset = <<0, 0>>
    /\ touches = <<>>
    /\ running = TRUE
    /\ frame = BlankFrame
    /\ screen = BlankScreen
    /\ last_call = NoCall
    /\ last_attempt = [temp |-> NoAttempt, weather |-> NoAttempt]

Startup == StartupAt(StartMinute)

Init ==
    /\ TEMP_ENDPOINT \in {None, "http://temp"}
    /\ WEATHER_ENDPOINT \in {None, "http://snek:8000/weather/api/most_recent"}
    /\ WEATHER_RAW \in WeatherAssetSets
    /\ Startup
    /\ pc = "begin"
    /\ arg = NoArg
    /\ result = NotRun

\* the last minute explored: a configuration without endpoints has no network
\* answers to explore and is followed one drift period longer, through a
\* second shift
Horizon ==
    StartMinute + MaxTime
        + (IF TEMP_ENDPOINT = None /\ WEATHER_ENDPOINT = None THEN DRIFT_PERIOD ELSE 0)

\* the time a blocking call may take, within the explored horizon
Elapsed == {d \in {0, 1} : clock + d <= Horizon}

(***************************************************************************)
(* One iteration of `while running:`, in the order of its statements.      *)
(***************************************************************************)

\* now, sun_times, is_day, theme_key, glyphs
FrameBegin ==
    /\ pc = "begin"
    /\ frame' = [BlankFrame EXCEPT
                    !.now = clock,
                    !.is_day = is_day(clock),
                    !.theme_key = theme_of(is_day(clock))]
    /\ pc' = "temperature"
    /\ UNCHANGED <<clock, config, temp_cache, weather_cache, drift, touches, running,
                   screen, history,
                   pure>>

\* temp_val = get_temperature() and the position of the temperature text
FrameTemperature ==
    /\ pc = "temperature"
    /\ \E net \in TempResponses, d \in Elapsed :
         LET r == get_temperature(net)
             asked == r.fetched /\ TEMP_ENDPOINT # None
         IN  /\ (~asked => d = 0)
             /\ clock' = clock + d
             /\ LAST_TEMP_VALUE' = r.value
             /\ LAST_TEMP_FETCH' = r.fetch
             /\ last_call' = [fn |-> "get_temperature", now |-> clock,
                              net |-> IF asked THEN net ELSE NoResponse,
                              since |-> last_attempt.temp,
                              before |-> [value |-> LAST_TEMP_VALUE, fetch |-> LAST_TEMP_FETCH],
                              other |-> [value |-> LAST_WEATHER_ICON, fetch |-> LAST_WEATHER_FETCH],
                              ret |-> r.ret,
                              fetched |-> r.fetched, logged |-> r.logged, raised |-> r.raised]
             /\ last_attempt' = IF r.fetched
                                THEN [last_attempt EXCEPT !.temp = [any |-> TRUE, at |-> clock]]
                                ELSE last_attempt
             /\ IF r.raised
                THEN /\ pc' = "crashed"
                     /\ frame' = frame
                ELSE /\ pc' = "weather"
                     /\ frame' = [frame EXCEPT
                            !.temp_val = r.ret,
                            !.temp_x = (SCREEN_W - temp_surf_width(r.ret)) \div 2 + temp_offset[1],
                            !.temp_y = TEMP_PADDING_TOP + temp_offset[2]]
    /\ UNCHANGED <<config, weather_cache, drift, touches, running, screen,
                   pure>>

\* the corner icon, then weather = get_weather_icon(theme_key), and their positions
FrameWeather ==
    /\ pc = "weather"
    /\ \E net \in WeatherResponses, d \in Elapsed :
         LET r == get_weather_icon(frame.theme_key, net)
             asked == r.fetched /\ WEATHER_ENDPOINT # None
         IN  /\ (~asked => d = 0)
             /\ clock' = clock + d
             /\ LAST_WEATHER_ICON' = r.value
             /\ LAST_WEATHER_FETCH' = r.fetch
             /\ last_call' = [fn |-> "get_weather_icon", now |-> clock,
                              net |-> IF asked THEN net ELSE NoResponse,
                              since |-> last_attempt.weather,
                              before |-> [value |-> LAST_WEATHER_ICON, fetch |-> LAST_WEATHER_FETCH],
                              other |-> [value |-> LAST_TEMP_VALUE, fetch |-> LAST_TEMP_FETCH],
                              ret |-> r.ret,
                              fetched |-> r.fetched, logged |-> r.logged, raised |-> r.raised]
             /\ last_attempt' = IF r.fetched
                                THEN [last_attempt EXCEPT !.weather = [any |-> TRUE, at |-> clock]]
                                ELSE last_attempt
             /\ IF r.raised
                THEN /\ pc' = "crashed"
                     /\ frame' = frame
                ELSE /\ pc' = "drift"
                     /\ frame' = [frame EXCEPT
                            !.icon = corner_icon(frame.is_day),
                            !.icon_x = SCREEN_W - ICON_W - PADDING + icon_offset[1],
                            !.icon_y = PADDING + icon_offset[2],
                            !.weather = r.ret,
                            !.weather_x = PADDING + weather_offset[1],
                            !.weather_y = PADDING + weather_offset[2]]
    /\ UNCHANGED <<config, temp_cache, drift, touches, running, screen,
                   pure>>

\* mutant: the shift comes one minute before next_shift
shift_due_early(now) == now >= next_shift - 1

\* if now >= next_shift
shift_due(now) == now >= next_shift

\* if now >= next_shift: resample every offset
\* origin = (origin[0] + randint, origin[1] + randint): drift added to drift
drifted_from_current(base, dx, dy) == <<origin[1] + dx, origin[2] + dy>>

\* bx, by = base_origin(); origin = (bx + randint, by + randint)
drifted(base, dx, dy) == <<base[1] + dx, base[2] + dy>>

\* a shift that also starts the touch list afresh
DriftShift_forgets_touches ==
    /\ pc = "drift"
    /\ shift_due(frame.now)
    /\ \E r \in RandomDraws :
         /\ \A i \in 1..8 : -DRIFT_PIXELS <= r[i] /\ r[i] <= DRIFT_PIXELS
         /\ origin' = drifted(base_origin, r[1], r[2])
         /\ icon_offset' = <<r[3], r[4]>>
         /\ temp_offset' = <<r[5], r[6]>>
         /\ weather_offset' = <<r[7], r[8]>>
    /\ next_shift' = frame.now + DRIFT_PERIOD
    /\ touches' = <<>>
    /\ frame' = [frame EXCEPT !.shifted = TRUE]
    /\ pc' = "events"
    /\ UNCHANGED <<clock, config, temp_cache, weather_cache, running, screen, history,
                   pure>>

\* if now >= next_shift: the strip's origin and the three offsets are drawn anew
DriftShift ==
    /\ pc = "drift"
    /\ shift_due(frame.now)
    /\ \E r \in RandomDraws :
         /\ \A i \in 1..8 : -DRIFT_PIXELS <= r[i] /\ r[i] <= DRIFT_PIXELS
         /\ origin' = drifted(base_origin, r[1], r[2])
         /\ icon_offset' = <<r[3], r[4]>>
         /\ temp_offset' = <<r[5], r[6]>>
         /\ weather_offset' = <<r[7], r[8]>>
    /\ next_shift' = frame.now + DRIFT_PERIOD
    /\ frame' = [frame EXCEPT !.shifted = TRUE]
    /\ pc' = "events"
    /\ UNCHANGED <<clock, config, temp_cache, weather_cache, touches, running, screen, history,
                   pure>>

DriftKeep ==
    /\ pc = "drift"
    /\ ~shift_due(frame.now)
    /\ pc' = "events"
    /\ UNCHANGED <<clock, config, temp_cache, weather_cache, drift, touches, running,
                   frame, screen, history,
                   pure>>

\* for e in pygame.event.get(): ...; then the purge of expired touches
FrameEvents ==
    /\ pc = "events"
    /\ \E events \in EventBatches :
         LET new == NewTouches(events, frame.now)
             quit == \E i \in 1..Len(events) : IsQuit(events[i])
         IN  /\ Len(touches) + Len(new) <= MaxTouches
             /\ running' = IF quit THEN FALSE ELSE running
             /\ touches' = Purge(touches \o new, frame.now)
             /\ frame' = [frame EXCEPT !.quit = quit,
                                        !.downs = [i \in 1..Len(new) |-> new[i].pos]]
    /\ pc' = "draw"
    /\ UNCHANGED <<clock, config, temp_cache, weather_cache, drift, screen, history,
                   pure>>

\* screen.blit(surface, pos): a TypeError when the surface is None
blit_ok(surface) == surface # NoSurface

\* screen.fill ... pygame.display.flip(); clock.tick(FPS)
FrameDraw ==
    /\ pc = "draw"
    /\ blit_ok(frame.weather)
    /\ screen' = [presented |-> TRUE, at |-> frame.now, shifted |-> frame.shifted,
                  quit |-> frame.quit, theme_key |-> frame.theme_key,
                  icon |-> frame.icon, icon_pos |-> <<frame.icon_x, frame.icon_y>>,
                  weather |-> frame.weather, weather_pos |-> <<frame.weather_x, frame.weather_y>>,
                  temp_val |-> frame.temp_val, temp_pos |-> <<frame.temp_x, frame.temp_y>>,
                  glyphs |-> glyph_seq(frame.now + 60 * TIME_ADJUST), strip_pos |-> origin,
                  touches |-> touches]
    /\ \E d \in Elapsed : clock' = clock + d
    /\ pc' = IF running THEN "begin" ELSE "quit"
    /\ UNCHANGED <<config, temp_cache, weather_cache, drift, touches, running, frame, history,
                   pure>>

\* screen.blit(weather, ...) with weather = None: the TypeError leaves the loop
FrameDrawCrash ==
    /\ pc = "draw"
    /\ ~blit_ok(frame.weather)
    /\ pc' = "crashed"
    /\ UNCHANGED <<clock, config, temp_cache, weather_cache, drift, touches, running,
                   frame, screen, history,
                   pure>>

\* pygame.quit(); sys.exit()
Exit ==
    /\ pc = "quit"
    /\ pc' = "exited"
    /\ UNCHANGED <<clock, config, temp_cache, weather_cache, drift, touches, running,
                   frame, screen, history,
                   pure>>

Next ==
    \/ FrameBegin
    \/ FrameTemperature
    \/ FrameWeather
    \/ DriftShift
    \/ DriftKeep
    \/ FrameEvents
    \/ FrameDraw
    \/ FrameDrawCrash
    \/ Exit

Spec == Init /\ [][Next]_vars

(***************************************************************************)
(* Vocabulary of the properties.  last_call describes the most recent      *)
(* readout call; no other statement writes a readout cache, so until the   *)
(* next call the cache variables are the cache as that call left it.       *)
(***************************************************************************)
IsTemp == last_call.fn = "get_temperature"
IsWeather == last_call.fn = "get_weather_icon"

CacheValue == IF IsTemp THEN LAST_TEMP_VALUE ELSE LAST_WEATHER_ICON
CacheFetch == IF IsTemp THEN LAST_TEMP_FETCH ELSE LAST_WEATHER_FETCH
OtherValue == IF IsTemp THEN LAST_WEATHER_ICON ELSE LAST_TEMP_VALUE
OtherFetch == IF IsTemp THEN LAST_WEATHER_FETCH ELSE LAST_TEMP_FETCH
Period == IF IsTemp THEN TEMP_NETWORK_PERIOD ELSE WEATHER_NETWORK_PERIOD

\* the call returned the readout's value v (for the weather: v's surface, if any)
Returned(v) ==
    IF IsTemp THEN last_call.ret = v
    ELSE IF v \in WEATHER_RAW THEN last_call.ret.name = v ELSE last_call.ret = NoSurface

\* the attempt failed: network error, timeout, or a payload that cannot be read
\* (not JSON, not an object, a Temperature that is no number)
AttemptFailed ==
    /\ last_call.fn # "none"
    /\ last_call.fetched
    /\ \/ last_call.net.status \in {"URLError", "timeout"}
       \/ /\ last_call.net.status = "ok"
          /\ \/ ~last_call.net.json
             \/ ~last_call.net.data.isdict
             \/ IsTemp /\ last_call.net.data.Temperature.t \notin {"absent", "num"}

\* the attempt got a JSON object carrying a value the readout can use
AttemptUsable ==
    /\ last_call.fn # "none"
    /\ last_call.fetched
    /\ last_call.net.status = "ok" /\ last_call.net.json /\ last_call.net.data.isdict
    /\ IF IsTemp THEN last_call.net.data.Temperature.t = "num"
       ELSE /\ last_call.net.data.condition.t = "str"
            /\ last_call.net.data.condition.s \in WEATHER_RAW

UsableValue ==
    IF IsTemp THEN last_call.net.data.Temperature.n ELSE last_call.net.data.condition.s

\* the attempt got a JSON object with the readout's field present
AttemptAnswered ==
    /\ last_call.fn # "none"
    /\ last_call.fetched
    /\ last_call.net.status = "ok" /\ last_call.net.json /\ last_call.net.data.isdict
    /\ IF IsTemp THEN last_call.net.data.Temperature.t = "num"
       ELSE last_call.net.data.condition.t = "str"

(* C1: for each readout, when a refresh attempt at t1 fails (network error,
   timeout, malformed payload) the cached value held before t1 is kept and
   returned, last_fetch becomes t1, and no exception leaves the call. *)
C1_FailedRefreshKeepsCache ==
    AttemptFailed =>
        /\ CacheValue = last_call.before.value
        /\ CacheFetch = last_call.now
        /\ Returned(last_call.before.value)
        /\ ~last_call.raised

\* a timeout hits a temperature cache that holds a fetched value
C1_Witness ==
    /\ IsTemp /\ AttemptFailed
    /\ last_call.net.status = "timeout"
    /\ last_call.before.value = 65
    /\ LAST_TEMP_VALUE = 65

(* C2 as stated: a get at t0 whose fetch succeeds stores the fetched value,
   sets last_fetch = t0 and returns the new value; a later get at t with
   t - t0 < P does not fetch and the first get with t - t0 >= P fetches. *)
C2_SuccessStoresFetchedValue ==
    /\ AttemptAnswered =>
          /\ CacheValue = UsableValue
          /\ CacheFetch = last_call.now
          /\ Returned(UsableValue)
    /\ (last_call.fn # "none" /\ last_call.since.any /\ (IsTemp => TEMP_ENDPOINT # None)) =>
          (last_call.fetched <=> last_call.now - last_call.since.at >= Period)

(* C2 amended: a get at t0 whose fetch succeeds sets last_fetch = t0, and
   stores and returns the fetched value when it is usable (a numeric
   Temperature; a condition name of the theme's weather asset set); a later
   get at t with t - t0 < P does not fetch and the first get with
   t - t0 >= P fetches. *)
C2_SuccessStoresUsableValue ==
    /\ AttemptAnswered => CacheFetch = last_call.now
    /\ AttemptUsable =>
          /\ CacheValue = UsableValue
          /\ Returned(UsableValue)
    /\ (last_call.fn # "none" /\ last_call.since.any /\ (IsTemp => TEMP_ENDPOINT # None)) =>
          (last_call.fetched <=> last_call.now - last_call.since.at >= Period)

\* one period after a fetch a new fetch replaces the cached 65 by 80
C2_Witness ==
    /\ IsTemp /\ AttemptUsable
    /\ last_call.since.any
    /\ last_call.now - last_call.since.at >= TEMP_NETWORK_PERIOD
    /\ last_call.before.value = 65
    /\ LAST_TEMP_VALUE = 80 /\ LAST_TEMP_FETCH = last_call.now

(* C3: a get at now with now - last_fetch < refresh_period is a pure cache
   hit: no fetch, the last known value is returned, the cached value and
   last_fetch stay as they were, and the other readout is not touched. *)
C3_CacheHitIsPure ==
    (last_call.fn # "none" /\ last_call.now - last_call.before.fetch < Period) =>
        /\ ~last_call.fetched /\ ~last_call.logged
        /\ Returned(last_call.before.value)
        /\ CacheValue = last_call.before.value
        /\ CacheFetch = last_call.before.fetch
        /\ OtherValue = last_call.other.value
        /\ OtherFetch = last_call.other.fetch

\* a hit on a weather cache that holds a fetched condition, in a later minute
C3_Witness ==
    /\ IsWeather
    /\ last_call.now - last_call.before.fetch < WEATHER_NETWORK_PERIOD
    /\ last_call.now > last_call.before.fetch
    /\ last_call.before.value = "rain"
    /\ last_call.ret.name = "rain"

(* C4: for each readout, two consecutive fetch attempts, failed or not, are
   at least one refresh period apart. *)
C4_AttemptsOnePeriodApart ==
    (last_call.fn # "none" /\ last_call.fetched /\ last_call.since.any) =>
        last_call.now - last_call.since.at >= Period

\* a second attempt on the weather endpoint, which fails again
C4_Witness ==
    /\ IsWeather /\ AttemptFailed
    /\ last_call.since.any
    /\ last_call.before.fetch = last_call.since.at
    /\ last_call.now - last_call.since.at >= WEATHER_NETWORK_PERIOD

(* C5: a temperature response that is valid JSON without a numeric
   Temperature field is a fetch failure: the cached temperature is kept (not
   replaced by a default) and last_fetch becomes now. *)
C5_NoTemperatureFieldKeepsCache ==
    ( /\ IsTemp /\ last_call.fetched
      /\ last_call.net.status = "ok" /\ last_call.net.json
      /\ last_call.net.data.Temperature.t # "num" ) =>
        /\ LAST_TEMP_VALUE = last_call.before.value
        /\ LAST_TEMP_FETCH = last_call.now

(* C6: a readout without a configured endpoint is a constant (temperature
   72.0, weather the default condition), never attempts a fetch and never
   logs a failure. *)
C6_NoEndpointIsConstant ==
    /\ TEMP_ENDPOINT = None =>
          /\ LAST_TEMP_VALUE = DEFAULT_TEMP_VALUE
          /\ IsTemp => (~last_call.fetched /\ ~last_call.logged)
    /\ WEATHER_ENDPOINT = None =>
          /\ LAST_WEATHER_ICON = DEFAULT_WEATHER_ICON
          /\ IsWeather => (~last_call.fetched /\ ~last_call.logged)

(* C7: when a successful weather fetch returns a condition name that is not
   in the theme's weather asset set, the previous selection is kept, no
   exception leaves the call and last_fetch becomes now; the selection only
   ever changes to names of the asset set. *)
C7_UnknownConditionKeepsSelection ==
    /\ ( /\ IsWeather /\ AttemptAnswered
         /\ last_call.net.data.condition.s \notin WEATHER_RAW ) =>
          /\ LAST_WEATHER_ICON = last_call.before.value
          /\ LAST_WEATHER_FETCH = last_call.now
          /\ ~last_call.raised /\ ~last_call.logged
    /\ (IsWeather /\ LAST_WEATHER_ICON # last_call.before.value) =>
          LAST_WEATHER_ICON \in WEATHER_RAW

\* "hail" arrives while "rain" is selected
C7_Witness ==
    /\ IsWeather /\ AttemptAnswered
    /\ last_call.net.data.condition.s = "hail"
    /\ last_call.before.value = "rain"
    /\ LAST_WEATHER_ICON = "rain"
    /\ LAST_WEATHER_FETCH = last_call.now

\* the main loop has just finished the draw step of the frame held in `frame`
JustDrawn == pc \in {"begin", "quit", "exited"} /\ screen.presented

(* C8: in a frame with now >= next_shift_instant the offsets resampled at
   that shift are all applied to that frame's draw: the strip, the corner
   icon, the temperature text and the weather icon are all drawn at their
   post-shift positions. *)
C8_ShiftAppliedToSameFrame ==
    (JustDrawn /\ screen.shifted) =>
        /\ screen.strip_pos = origin
        /\ screen.icon_pos = <<SCREEN_W - ICON_W - PADDING + icon_offset[1],
                               PADDING + icon_offset[2]>>
        /\ screen.temp_pos = <<(SCREEN_W - temp_surf_width(screen.temp_val)) \div 2
                                  + temp_offset[1],
                               TEMP_PADDING_TOP + temp_offset[2]>>
        /\ screen.weather_pos = <<PADDING + weather_offset[1], PADDING + weather_offset[2]>>

(* C9: no fetch failure, malformed payload or unrecognized condition stops
   the render loop: the loop is left only in a frame that received a
   quit/escape event. *)
C9_LoopLeftOnlyOnQuit ==
    pc \in {"quit", "exited", "crashed"} => (frame.quit /\ ~running)

(* C10: when the cached condition has no image in the theme, so that
   get_weather_icon returns no surface, the frame is still composited and
   presented, without a weather icon. *)
C10_FramePresentedWithoutWeatherIcon ==
    ( /\ pc \in {"begin", "quit", "exited", "crashed"}
      /\ frame.theme_key # None
      /\ frame.weather = NoSurface ) =>
        /\ pc # "crashed"
        /\ screen.presented /\ screen.at = frame.now
        /\ screen.weather = NoSurface

(* C11: the drift state changes only in the drift step of a frame with
   now >= next_shift_instant, and that step sets next_shift_instant to
   now + DRIFT_PERIOD; in every other frame the origin and all offsets stay
   as they were.  No shift happens before one full period after startup. *)
C11_ShiftOnlyWhenDue ==
    [][ drift' # drift =>
          /\ pc = "drift" /\ pc' = "events"
          /\ frame.now >= next_shift
          /\ frame.now >= StartMinute + DRIFT_PERIOD
          /\ next_shift' = frame.now + DRIFT_PERIOD ]_vars

\* a frame after the first shift that is not due and has kept the shifted offsets
C11_Witness ==
    /\ pc = "events" /\ ~frame.shifted
    /\ frame.now < next_shift
    /\ frame.now >= StartMinute + DRIFT_PERIOD
    /\ icon_offset = <<-DRIFT_PIXELS, -DRIFT_PIXELS>>
    /\ origin = <<base_origin[1] - DRIFT_PIXELS, base_origin[2] - DRIFT_PIXELS>>

(***************************************************************************)
(* The clock face on its own: glyph_seq(now + timedelta(hours=TIME_ADJUST)) *)
(* for every minute of a day and a choice of display offsets.              *)
(***************************************************************************)
MinutesOfDay == 1440
TimeAdjustChoices == {-13, -1, 0, 1, 13}

GlyphSeqInit ==
    /\ TEMP_ENDPOINT = None
    /\ WEATHER_ENDPOINT = None
    /\ WEATHER_RAW = {"clear_day", "cloudy"}
    /\ Startup
    /\ pc = "begin"
    /\ arg \in [fn : {"glyph_seq"}, now : 0 .. MinutesOfDay - 1, adjust : TimeAdjustChoices]
    /\ result = NotRun

\* display_time = now + timedelta(hours=TIME_ADJUST); glyph_seq(display_time)
GlyphSeqApply ==
    /\ arg.fn = "glyph_seq"
    /\ ~result.done
    /\ result' = [done |-> TRUE, v |-> glyph_seq(arg.now + 60 * arg.adjust)]
    /\ UNCHANGED <<clock, config, temp_cache, weather_cache, drift, touches, running,
                   pc, frame, screen, history, arg>>

SpecGlyphSeq == GlyphSeqInit /\ [][GlyphSeqApply]_vars

DigitKeys == {ToString(d) : d \in 0..9}
DigitValue(k) == CHOOSE d \in 0..9 : ToString(d) = k

(* C12: for every instant and every whole-hour display offset, glyph_seq
   gives exactly six keys: the two digits of the hour on the 12-hour clock
   (01..12, zero-padded), "colon", the two digits of the minute, and "am" or
   "pm"; the keys at positions 3 and 6 are narrow, those at positions 1, 2, 4
   and 5 are digits. *)
C12_SixKeysOfTheDisplayTime ==
    (arg.fn = "glyph_seq" /\ result.done) =>
        LET g == result.v
            t == arg.now + 60 * arg.adjust
            h == (t \div 60) % 24
            m == t % 60
        IN  /\ Len(g) = 6
            /\ \A i \in {1, 2, 4, 5} : g[i] \in DigitKeys
            /\ 10 * DigitValue(g[1]) + DigitValue(g[2]) \in 1..12
            /\ (10 * DigitValue(g[1]) + DigitValue(g[2])) % 12 = h % 12
            /\ g[3] = "colon"
            /\ 10 * DigitValue(g[4]) + DigitValue(g[5]) = m
            /\ g[6] = (IF h < 12 THEN "am" ELSE "pm")
            /\ \A i \in 1..6 : (g[i] \in NARROW) <=> (i \in {3, 6})

\* 09:05 in the morning is drawn as 0, 9, colon, 0, 5, am
C12_Witness ==
    /\ arg.fn = "glyph_seq" /\ result.done
    /\ arg.now = 9 * 60 + 5 /\ arg.adjust = 0
    /\ result.v = <<"0", "9", "colon", "0", "5", "am">>

(***************************************************************************)
(* The loop over a whole day: started two minutes before sunrise with no   *)
(* endpoint configured, it runs through sunrise and through sunset.        *)
(***************************************************************************)
DayInit ==
    /\ TEMP_ENDPOINT = None
    /\ WEATHER_ENDPOINT = None
    /\ WEATHER_RAW \in WeatherAssetSets
    /\ StartupAt(SunriseMinute - 2)
    /\ pc = "begin"
    /\ arg = NoArg
    /\ result = NotRun

SpecDay == DayInit /\ [][Next]_vars

(* C13: in every frame is_day is true exactly when sunrise <= now < sunset
   (an instant at sunrise is day, an instant at sunset is night), and the
   frame takes the day glyph set and a sun icon exactly when is_day is true,
   the night glyph set and a moon icon otherwise. *)
C13_DayFromSunriseToSunset ==
    /\ frame.theme_key # None =>
         /\ frame.is_day <=> (SunriseMinute <= frame.now /\ frame.now < SunsetMinute)
         /\ frame.theme_key = (IF frame.is_day THEN "day" ELSE "night")
    /\ frame.icon # None =>
         frame.icon = (IF frame.is_day THEN "sun" ELSE "moon")
    /\ screen.presented =>
         IF SunriseMinute <= screen.at /\ screen.at < SunsetMinute
         THEN screen.theme_key = "day" /\ screen.icon = "sun"
         ELSE screen.theme_key = "night" /\ screen.icon = "moon"

\* the frame of the minute of sunrise is a day frame, the one shown before it was not
C13_Witness ==
    /\ frame.now = SunriseMinute /\ frame.is_day /\ frame.icon = "sun"
    /\ screen.presented /\ screen.at = SunriseMinute - 1
    /\ screen.theme_key = "night" /\ screen.icon = "moon"

\* the frame of the minute of sunset is a night frame, the one shown before it was not
C13_SunsetReached ==
    /\ frame.now = SunsetMinute /\ ~frame.is_day /\ frame.icon = "moon"
    /\ screen.presented /\ screen.at = SunsetMinute - 1
    /\ screen.theme_key = "day" /\ screen.icon = "sun"

(***************************************************************************)
(* The moon bucket on its own: moon_phase_name as p = moon.phase(date)     *)
(* grows over one synodic month.  Days are counted in 1/PhaseUnit.         *)
(***************************************************************************)
PhaseUnit == 100000
SYNODIC == 2953000          \* 29.53 days
BUCKET_SHIFT == 184566      \* 1.84566 days
BUCKET_WIDTH == 369134      \* 3.69134 days
PhaseSteps == 100           \* samples of p per day
PhaseStep == PhaseUnit \div PhaseSteps
FullMoonPhase == 1477000    \* 14.77 days

MOON_NAMES ==
    <<"new", "waxing_crescent", "first_quarter", "waxing_gibbous",
      "full", "waning_gibbous", "third_quarter", "waning_crescent">>

\* int((p - 1.84566) // 3.69134) % 8: the half bucket taken off, not added
moon_index_shifted_back(p) == ((p - BUCKET_SHIFT) \div BUCKET_WIDTH) % 8

\* idx = int((p + 1.84566) // 3.69134) % 8
moon_index(p) == ((p + BUCKET_SHIFT) \div BUCKET_WIDTH) % 8

moon_phase_name(p) == MOON_NAMES[moon_index(p) + 1]

\* the month is sampled from its start, and on the grid through 14.77 days
PhaseStarts == {0, FullMoonPhase % PhaseStep}

MoonInit ==
    /\ TEMP_ENDPOINT = None
    /\ WEATHER_ENDPOINT = None
    /\ WEATHER_RAW = {"clear_day", "cloudy"}
    /\ Startup
    /\ pc = "begin"
    /\ arg \in [fn : {"moon_phase_name"}, p : PhaseStarts]
    /\ result = NotRun

\* the first date of the month
MoonFirst ==
    /\ arg.fn = "moon_phase_name"
    /\ ~result.done
    /\ result' = [done |-> TRUE, idx |-> moon_index(arg.p), name |-> moon_phase_name(arg.p),
                  prev |-> moon_index(arg.p), seen |-> {moon_index(arg.p)}]
    /\ UNCHANGED <<clock, config, temp_cache, weather_cache, drift, touches, running,
                   pc, frame, screen, history, arg>>

\* a later date of the same month
MoonLater ==
    /\ arg.fn = "moon_phase_name"
    /\ result.done
    /\ arg.p + PhaseStep < SYNODIC
    /\ arg' = [arg EXCEPT !.p = arg.p + PhaseStep]
    /\ result' = [done |-> TRUE, idx |-> moon_index(arg'.p), name |-> moon_phase_name(arg'.p),
                  prev |-> result.idx, seen |-> result.seen \cup {moon_index(arg'.p)}]
    /\ UNCHANGED <<clock, config, temp_cache, weather_cache, drift, touches, running,
                   pc, frame, screen, history>>

MoonNext == MoonFirst \/ MoonLater

SpecMoon == MoonInit /\ [][MoonNext]_vars

(* C14: for every p in [0, 29.53) the moon bucket lies in 0..7 and selects
   the moon icon of that name; as p grows over the month the bucket stays or
   moves on by one modulo 8, all eight buckets are produced by the end of the
   month; p = 0 gives bucket 0 (new) and p = 14.77 gives bucket 4 (full). *)
C14_MoonBuckets ==
    (arg.fn = "moon_phase_name" /\ result.done) =>
        /\ 0 <= arg.p /\ arg.p < SYNODIC
        /\ result.idx \in 0..7
        /\ result.name = MOON_NAMES[result.idx + 1]
        /\ (result.idx - result.prev) % 8 \in {0, 1}
        /\ arg.p = 0 => result.idx = 0 /\ result.name = "new"
        /\ arg.p = FullMoonPhase => result.idx = 4 /\ result.name = "full"
        /\ arg.p + PhaseStep >= SYNODIC => result.seen = 0..7

\* the end of a month in which all eight buckets came up, back in bucket 0
C14_Witness ==
    /\ arg.fn = "moon_phase_name" /\ result.done
    /\ arg.p + PhaseStep >= SYNODIC
    /\ result.seen = 0..7
    /\ result.idx = 0 /\ result.name = "new"

\* the date 14.77 days into the month shows the full moon
C14_FullMoonReached ==
    /\ arg.fn = "moon_phase_name" /\ result.done
    /\ arg.p = FullMoonPhase /\ result.idx = 4 /\ result.name = "full"

(***************************************************************************)
(* Startup: the two themed digit folders are loaded before the loop.       *)
(***************************************************************************)
expected == {"0", "1", "2", "3", "4", "5", "6", "7", "8", "9", "colon", "am", "pm"}

\* the keys in the order of Python's sorted()
SortedKeys == <<"0", "1", "2", "3", "4", "5", "6", "7", "8", "9", "am", "colon", "pm">>
sorted(keys) == SelectSeq(SortedKeys, LAMBDA k : k \in keys)

\* the error names the first missing key only
load_digits_first_missing(folder, stems) ==
    LET miss == expected \ stems
    IN  IF miss # {}
        THEN [raised |-> TRUE, folder |-> folder, missing |-> <<Head(sorted(miss))>>]
        ELSE [raised |-> FALSE, folder |-> folder, missing |-> <<>>]

\* stems: the names of the *.png files of the folder; the FileNotFoundError
\* carries the folder and ', '.join(sorted(miss))
load_digits(folder, stems) ==
    LET miss == expected \ stems
    IN  IF miss # {}
        THEN [raised |-> TRUE, folder |-> folder, missing |-> sorted(miss)]
        ELSE [raised |-> FALSE, folder |-> folder, missing |-> <<>>]

DayFolders == SUBSET (expected \cup {"readme"})
NightFolders == {expected, expected \ {"pm"}, expected \ {"0", "am", "colon"}, {}}

DigitsInit ==
    /\ TEMP_ENDPOINT = None
    /\ WEATHER_ENDPOINT = None
    /\ WEATHER_RAW \in WeatherAssetSets
    /\ Startup
    /\ pc = "load_digits"
    /\ arg \in [fn : {"load_digits"}, day : DayFolders, night : NightFolders]
    /\ result = NotRun

\* DIGIT_RAW = {"day": load_digits(...), "night": load_digits(...)}
LoadDigits ==
    /\ pc = "load_digits"
    /\ LET day == load_digits("day", arg.day)
           night == load_digits("night", arg.night)
           got == IF day.raised THEN day ELSE night
       IN  /\ result' = [done |-> TRUE, raised |-> got.raised,
                         folder |-> got.folder, missing |-> got.missing]
           /\ pc' = IF got.raised THEN "aborted" ELSE "begin"
    /\ UNCHANGED <<clock, config, temp_cache, weather_cache, drift, touches, running,
                   frame, screen, history, arg>>

StartupNext == LoadDigits \/ Next

SpecStartup == DigitsInit /\ [][StartupNext]_vars

(* C15: for every set of glyph files in a themed digit folder, load_digits
   fails exactly when one of the 13 required keys has no file; its one error
   names every missing key, each once; the failure ends the program at
   startup, before any frame of the loop. *)
C15_MissingGlyphsStopStartup ==
    /\ Cardinality(expected) = 13
    /\ (arg.fn = "load_digits" /\ ~result.done) => pc = "load_digits"
    /\ (arg.fn = "load_digits" /\ result.done) =>
         LET missDay == expected \ arg.day
             missNight == expected \ arg.night
             miss == IF missDay # {} THEN missDay ELSE missNight
         IN  /\ result.raised <=> (missDay # {} \/ missNight # {})
             /\ result.raised <=> pc = "aborted"
             /\ result.raised =>
                  /\ result.folder = (IF missDay # {} THEN "day" ELSE "night")
                  /\ {result.missing[i] : i \in 1..Len(result.missing)} = miss
                  /\ Len(result.missing) = Cardinality(miss)
                  /\ frame = BlankFrame /\ ~screen.presented

\* a day folder without three of the glyphs: one error naming the three
C15_Witness ==
    /\ arg.fn = "load_digits" /\ result.done
    /\ arg.day = expected \ {"7", "colon", "am"}
    /\ result.raised /\ result.folder = "day"
    /\ result.missing = <<"7", "am", "colon">>
    /\ pc = "aborted"

\* with every glyph in both folders the loop is entered and presents frames
C15_LoopEntered ==
    /\ arg.fn = "load_digits" /\ result.done /\ ~result.raised
    /\ "readme" \in arg.day
    /\ screen.presented

(* C16: each pointer-down event of a frame appends one marker with expiry
   now + TOUCH_DURATION, now being that frame's instant; the list that is
   drawn holds, in creation order, exactly the earlier markers with
   expiry > now followed by the frame's new ones, so a marker is drawn in the
   frame that made it and in every later frame with now < expiry, and never
   in a frame with now >= expiry. *)
C16_TouchMarkers ==
    [][ /\ (pc = "events" /\ pc' = "draw") =>
             LET kept == SelectSeq(touches, LAMBDA t : t.expiry > frame.now)
                 n == Len(frame'.downs)
             IN  /\ Len(touches') = Len(kept) + n
                 /\ \A i \in 1..Len(kept) : touches'[i] = kept[i]
                 /\ \A i \in 1..n :
                      touches'[Len(kept) + i] =
                          [pos |-> frame'.downs[i], expiry |-> frame.now + TOUCH_DURATION]
        /\ (pc = "draw" /\ pc' \in {"begin", "quit"}) =>
             /\ screen'.touches = touches
             /\ \A i \in 1..Len(touches) : touches[i].expiry > frame.now
        /\ touches' # touches => pc = "events" ]_vars

\* a marker of an earlier frame, already on the screen, ahead of this frame's marker
C16_Witness ==
    /\ pc = "draw"
    /\ frame.downs = <<There>>
    /\ touches = <<[pos |-> Here, expiry |-> frame.now + TOUCH_DURATION],
                   [pos |-> There, expiry |-> frame.now + TOUCH_DURATION]>>
    /\ screen.presented
    /\ screen.touches = <<[pos |-> Here, expiry |-> frame.now + TOUCH_DURATION]>>

\* a frame at the expiry instant of the markers on the screen has dropped them
C16_MarkersExpired ==
    /\ pc = "draw"
    /\ screen.presented /\ Len(screen.touches) = 2
    /\ screen.touches[1].expiry = frame.now
    /\ touches = <<>>

\* |a - b| <= DRIFT_PIXELS on both axes
Near(a, b) ==
    \A i \in 1..2 : a[i] - b[i] <= DRIFT_PIXELS /\ b[i] - a[i] <= DRIFT_PIXELS

(* C17: in every state, after any number of shifts, the glyph strip's origin
   is within DRIFT_PIXELS of base_origin on each axis and the icon, the
   temperature and the weather offsets are within DRIFT_PIXELS of zero; every
   frame on the screen shows each element within DRIFT_PIXELS of its fixed
   base position: drift is resampled from the base, never accumulated. *)
C17_DriftStaysNearBase ==
    /\ Near(origin, base_origin)
    /\ Near(icon_offset, <<0, 0>>)
    /\ Near(temp_offset, <<0, 0>>)
    /\ Near(weather_offset, <<0, 0>>)
    /\ screen.presented =>
         /\ Near(screen.strip_pos, base_origin)
         /\ Near(screen.icon_pos, <<SCREEN_W - ICON_W - PADDING, PADDING>>)
         /\ Near(screen.weather_pos, <<PADDING, PADDING>>)
         /\ Near(screen.temp_pos,
                 <<(SCREEN_W - temp_surf_width(screen.temp_val)) \div 2, TEMP_PADDING_TOP>>)

\* a frame on the screen after sunset, many shifts after the start before
\* sunrise, with the strip at the far corner of its drift range
C17_Witness ==
    /\ screen.presented /\ screen.shifted
    /\ screen.at >= SunsetMinute
    /\ next_shift >= SunriseMinute - 2 + 3 * DRIFT_PERIOD
    /\ screen.strip_pos = <<base_origin[1] - DRIFT_PIXELS, base_origin[2] - DRIFT_PIXELS>>
    /\ screen.icon_pos = <<SCREEN_W - ICON_W - PADDING - DRIFT_PIXELS, PADDING - DRIFT_PIXELS>>

\* what a frame shows besides positions
Shown(f) ==
    [now |-> f.now, is_day |-> f.is_day, theme_key |-> f.theme_key, temp_val |-> f.temp_val,
     icon |-> f.icon, weather |-> f.weather, glyphs |-> glyph_seq(f.now + 60 * TIME_ADJUST)]

(* C18: the drift step of a frame, shift or no shift, leaves the cached
   temperature and weather condition and both last_fetch instants, the
   frame's day/night selection, icons, temperature and glyph key sequence,
   and the touch list as they were; a shift changes positions only. *)
C18_ShiftMovesPositionsOnly ==
    [][ pc = "drift" =>
          /\ UNCHANGED <<temp_cache, weather_cache, touches, config, running, screen>>
          /\ Shown(frame') = Shown(frame) ]_vars

\* the frame of a shift, with a fetched temperature in the cache and a live marker
C18_Witness ==
    /\ pc = "events" /\ frame.shifted
    /\ origin # base_origin
    /\ LAST_TEMP_VALUE # DEFAULT_TEMP_VALUE
    /\ LAST_TEMP_FETCH > StartMinute
    /\ touches # <<>>

(* C19: once a quit event (window close, Escape, q) has been received in a
   frame, that frame is still composited and presented, no further frame is
   evaluated, and the program reaches its exit state. *)
C19_QuitFramePresentedThenExit ==
    /\ ~running => frame.quit /\ pc \in {"draw", "quit", "exited"}
    /\ (frame.quit /\ pc # "draw") =>
         /\ pc \in {"quit", "exited"}
         /\ screen.presented /\ screen.quit /\ screen.at = frame.now

\* the frame that received the quit event is on the screen and the program has exited
C19_QuitFrameShown ==
    /\ pc = "exited" /\ ~running
    /\ frame.quit /\ screen.presented /\ screen.quit /\ screen.at = frame.now

\* the frame that received the quit event was never presented
C19_QuitFrameLost ==
    /\ pc = "crashed" /\ ~running
    /\ frame.quit /\ ~screen.presented

(***************************************************************************)
(* The layout on its own: sample glyphs of many sizes under reserved tops  *)
(* of many heights, the strip drawn from every drifted origin.             *)
(***************************************************************************)
SampleWidths == {1, 2, 3, 7, 64, 300, 367, 1000}
SampleHeights == {1, 2, 5, 64, 333, 500, 1000, 3000}
TopChoices == {81, 170, 280, 281, 440, 700, 900, 998, 999, 1000}
DriftChoices == (-DRIFT_PIXELS) .. DRIFT_PIXELS

LayoutInit ==
    /\ TEMP_ENDPOINT = None
    /\ WEATHER_ENDPOINT = None
    /\ WEATHER_RAW = {"clear_day", "cloudy"}
    /\ Startup
    /\ pc = "begin"
    /\ arg \in [fn : {"layout"}, ow : SampleWidths, oh : SampleHeights, top : TopChoices,
                dx : DriftChoices, dy : DriftChoices]
    /\ result = NotRun

\* x += W_HALF if k in NARROW else W_FULL, over the keys of the strip
RECURSIVE Advance(_, _, _)
Advance(keys, full, half) ==
    IF keys = <<>> THEN 0
    ELSE (IF Head(keys) \in NARROW THEN half ELSE full) + Advance(Tail(keys), full, half)

\* the sizes, the base origin, the drifted origin and the strip drawn from it
LayoutApply ==
    /\ arg.fn = "layout"
    /\ ~result.done
    /\ LET full == w_full(arg.ow, arg.oh, arg.top)
           half == w_half(full)
           height == h_all(arg.ow, arg.oh, arg.top)
           base == base_origin_at(strip_w(full, half), height, arg.top)
           at == drifted(base, arg.dx, arg.dy)
       IN  result' = [done |-> TRUE,
                      scale_positive |-> scale_num(arg.ow, arg.oh, arg.top) > 0,
                      W_FULL |-> full, W_HALF |-> half, H_ALL |-> height,
                      left |-> at[1], top |-> at[2],
                      right |-> at[1] + Advance(glyph_seq(StartMinute), full, half),
                      bottom |-> at[2] + height]
    /\ UNCHANGED <<clock, config, temp_cache, weather_cache, drift, touches, running,
                   pc, frame, screen, history, arg>>

SpecLayout == LayoutInit /\ [][LayoutApply]_vars

(* C20: for every sample-glyph size and reserved top height with a positive
   scale and every drift offset in -DRIFT_PIXELS..DRIFT_PIXELS per axis, the
   six-glyph strip, 4*W_FULL + 2*W_HALF wide and H_ALL high, drawn from the
   drifted origin lies inside the SCREEN_W x SCREEN_H screen and does not
   start above the reserved top area. *)
C20_StripStaysOnScreen ==
    (arg.fn = "layout" /\ result.done /\ result.scale_positive) =>
        /\ result.right - result.left = 4 * result.W_FULL + 2 * result.W_HALF
        /\ result.bottom - result.top = result.H_ALL
        /\ 0 <= result.left /\ result.right <= SCREEN_W
        /\ arg.top <= result.top /\ result.bottom <= SCREEN_H

\* a strip as wide as the layout allows, drifted to the far left and up
C20_Witness ==
    /\ arg.fn = "layout" /\ result.done /\ result.scale_positive
    /\ arg.dx = -DRIFT_PIXELS /\ arg.dy = -DRIFT_PIXELS
    /\ result.W_FULL = 368 /\ result.W_HALF = 184
    /\ result.left = PADDING - DRIFT_PIXELS
    /\ result.right = SCREEN_W - PADDING - DRIFT_PIXELS

\* a reserved top that leaves one row of pixels for the glyphs
C20_OneRowLeft ==
    /\ arg.fn = "layout" /\ result.done /\ result.scale_positive
    /\ arg.top = 999 /\ result.H_ALL = 1 /\ arg.dy = -DRIFT_PIXELS
    /\ result.top = arg.top + PADDING - DRIFT_PIXELS

\* a reserved top that leaves no room: the scale is not positive
C20_NoRoom ==
    /\ arg.fn = "layout" /\ result.done /\ ~result.scale_positive

====
